---- MODULE Spec2Model ----
(***************************************************************************)
(* Model of the chatti core: the encrypted, append-only history log       *)
(* (core/history.py) and the flat key/value vault of identities           *)
(* (core/security.py, core/paths.py).                                      *)
(*                                                                         *)
(* A file is a sequence of bytes.  A Fernet token occupies TokLen bytes;   *)
(* every byte of a token carries the key it was made under, the encrypted  *)
(* payload, the token's random nonce and its position in the token, so a   *)
(* line decrypts iff it is exactly the TokLen bytes of one token, in       *)
(* order, and the reader holds the key.                                    *)
(***************************************************************************)
EXTENDS Integers, Sequences, FiniteSets, TLC

VARIABLES
    hist,        \* bytes of the identity's history.jsonl
    histExists,  \* whether history.jsonl exists
    clock,       \* wall clock, in seconds
    nonce,       \* number of Fernet tokens made so far (each token is fresh)
    appended,    \* the completed appends whose line is intact, in order
    fault,       \* "none", "tampered" or "crashed"
    inflight,    \* bytes of its line a running save_turn has still to write
    result,      \* the value the last read returned to its caller
    last,        \* the read call that returned `result`
    secrets,     \* lines of chatti-secrets.conf
    secretsExists, \* whether chatti-secrets.conf exists
    dirs,        \* uids that have a directory under users/
    used,        \* uids _new_uid has drawn so far
    vlast,       \* the last vault operation and its arguments
    vret,        \* what the last vault operation returned or raised
    pending,     \* the writes a running add_user has still to make
    created,     \* for each uid add_user has returned: the name, passphrase and credential it was given
    dump,        \* the export file written by dump_history_encrypted
    fresh,       \* bytes of the history.jsonl of a second, freshly created identity
    imports,     \* number of history_import calls so far
    xlast,       \* the last export or import call and how it ended
    adminPin,    \* the PIN admin_pin.json holds, NoPin while the file is missing
    pin          \* the running change_admin_pin_interactive: its position and locals

hvars == <<hist, histExists, nonce, appended, fault, inflight, result, last>>

vvars == <<secrets, secretsExists, dirs, used, vlast, vret, pending, created>>

xvars == <<dump, fresh, imports, xlast>>

pvars == <<adminPin, pin>>

vars == <<hist, histExists, clock, nonce, appended, fault, inflight, result, last,
          secrets, secretsExists, dirs, used, vlast, vret, pending, created,
          dump, fresh, imports, xlast, adminPin, pin>>

----------------------------------------------------------------------------
(* Bounds *)

MaxAppends == 2
MaxClock == 1
TokLen == 2
MaxChunk == 2
MaxCreates == 2
MaxFileLines == 3
MaxImports == 2
MaxLimit == 2
MaxTries == 3

(* Program constants *)

DefaultChunk == 65536

----------------------------------------------------------------------------
(* Inputs *)

Masters == {"pw1", "pw2"}
NoMaster == ""
HistSalt == "salt1"
ChunkSizes == (1..MaxChunk) \cup {DefaultChunk}
LastNs == (0..(MaxAppends + 1)) \cup {MaxAppends + 10}
Turns == {<<"user", "hi">>, <<"assistant", "">>, <<"tool", "hi">>}

Min(a, b) == IF a < b THEN a ELSE b

----------------------------------------------------------------------------
(* Bytes *)

Plain(kind) == [c |-> kind, key |-> <<>>, p |-> <<>>, n |-> 0, i |-> 0]
NL == Plain("nl")
SP == Plain("sp")
HASH == Plain("#")
JUNK == Plain("x")
HB == Plain("h")

IsSpace(b) == b.c \in {"sp", "nl"}

(* json.dumps / json.loads of a record {"ts", "role", "content"} *)
json_dumps(rec) == <<rec.ts, rec.role, rec.content>>
json_loads(p) == [ts |-> p[1], role |-> p[2], content |-> p[3]]

(* HKDF(salt, info = "chatti:history") over the master passphrase *)
derive_history_key(master, salt) == <<"chatti:history", master, salt>>

_history_key_for_uid(master) == derive_history_key(master, HistSalt)

(* Fernet.encrypt: the token as TokLen bytes *)
FernetEncrypt(key, payload, iv) ==
    [i \in 1..TokLen |-> [c |-> "t", key |-> key, p |-> payload, n |-> iv, i |-> i]]

FernetOk_cut(key, s) ==
    /\ Len(s) \in 1..TokLen
    /\ \A i \in 1..Len(s) :
          /\ s[i].c = "t"
          /\ s[i].i = i
          /\ s[i].key = key
          /\ s[i].n = s[1].n
          /\ s[i].p = s[1].p

(* Fernet.decrypt succeeds iff the input is one whole token under this key *)
FernetOk(key, s) ==
    /\ Len(s) = TokLen
    /\ \A i \in 1..TokLen :
          /\ s[i].c = "t"
          /\ s[i].i = i
          /\ s[i].key = key
          /\ s[i].n = s[1].n
          /\ s[i].p = s[1].p

FernetDecrypt(key, s) == s[1].p

IsTokenLine(s) == Len(s) = TokLen /\ s[1].c = "t" /\ FernetOk(s[1].key, s)

(* the header line written by _init_history_file_if_missing *)
HeaderText == <<HB, NL>>

----------------------------------------------------------------------------
(* Text helpers *)

RECURSIVE SplitFrom(_, _, _)
SplitFrom(s, i, cur) ==
    IF i > Len(s) THEN <<cur>>
    ELSE IF s[i].c = "nl" THEN <<cur>> \o SplitFrom(s, i + 1, <<>>)
    ELSE SplitFrom(s, i + 1, Append(cur, s[i]))

(* bytes.split(b"\n"): always at least one part *)
split(s) == SplitFrom(s, 1, <<>>)

(* str.splitlines(): no part for the text after a final newline *)
splitlines(s) ==
    LET parts == split(s)
    IN IF parts[Len(parts)] = <<>> THEN SubSeq(parts, 1, Len(parts) - 1) ELSE parts

RECURSIVE lstrip(_)
lstrip(s) == IF s # <<>> /\ IsSpace(Head(s)) THEN lstrip(Tail(s)) ELSE s

RECURSIVE rstrip(_)
rstrip(s) ==
    IF s # <<>> /\ IsSpace(s[Len(s)]) THEN rstrip(SubSeq(s, 1, Len(s) - 1)) ELSE s

strip(s) == rstrip(lstrip(s))

(* lines[-n:] of Python, for n >= 1 *)
LastN(s, n) == IF Len(s) <= n THEN s ELSE SubSeq(s, Len(s) - n + 1, Len(s))

RECURSIVE Flatten(_)
Flatten(ss) == IF ss = <<>> THEN <<>> ELSE Head(ss) \o Flatten(Tail(ss))

----------------------------------------------------------------------------
(* core/history.py *)

RECURSIVE DecodeLines_abort(_, _, _)
DecodeLines_abort(key, lines, skipHash) ==
    IF lines = <<>> THEN <<>>
    ELSE LET s == strip(Head(lines))
         IN IF s = <<>> \/ (skipHash /\ s[1].c = "#")
            THEN DecodeLines_abort(key, Tail(lines), skipHash)
            ELSE IF FernetOk(key, s)
                 THEN <<json_loads(FernetDecrypt(key, s))>>
                          \o DecodeLines_abort(key, Tail(lines), skipHash)
                 ELSE <<>>

(* the decrypt-and-parse loop body shared by load_history and             *)
(* load_history_tail: a line that fails is skipped                         *)
RECURSIVE DecodeLines(_, _, _)
DecodeLines(key, lines, skipHash) ==
    IF lines = <<>> THEN <<>>
    ELSE LET s == strip(Head(lines))
             rest == DecodeLines(key, Tail(lines), skipHash)
         IN IF s = <<>> \/ (skipHash /\ s[1].c = "#") THEN rest
            ELSE IF FernetOk(key, s)
                 THEN <<json_loads(FernetDecrypt(key, s))>> \o rest
                 ELSE rest

load_history(exists, data, last_n, master) ==
    IF ~exists \/ master = NoMaster THEN <<>>
    ELSE LET f == _history_key_for_uid(master)
             all == splitlines(data)
             lines == IF last_n # 0 THEN LastN(all, last_n) ELSE all
         IN DecodeLines(f, lines, TRUE)

RECURSIVE TailLoop_exact(_, _, _, _, _, _)
TailLoop_exact(data, pos, lines, remainder, want, chunk_size) ==
    IF pos > 0 /\ Len(lines) < want
    THEN LET read_size == Min(chunk_size, pos)
             npos == pos - read_size
             chunk == SubSeq(data, npos + 1, npos + read_size)
             parts == split(chunk \o remainder)
         IN TailLoop_exact(data, npos, Tail(parts) \o lines, Head(parts), want, chunk_size)
    ELSE IF remainder # <<>> THEN <<remainder>> \o lines ELSE lines

RECURSIVE TailLoop(_, _, _, _, _, _)
TailLoop(data, pos, lines, remainder, want, chunk_size) ==
    IF pos > 0 /\ Len(lines) < want + 1
    THEN LET read_size == Min(chunk_size, pos)
             npos == pos - read_size
             chunk == SubSeq(data, npos + 1, npos + read_size)
             parts == split(chunk \o remainder)
         IN TailLoop(data, npos, Tail(parts) \o lines, Head(parts), want, chunk_size)
    ELSE IF remainder # <<>> THEN <<remainder>> \o lines ELSE lines

NonBlank(lines) == SelectSeq([i \in 1..Len(lines) |-> strip(lines[i])], LAMBDA s : s # <<>>)

tail_lines(data, last_n, chunk_size) ==
    LastN(NonBlank(TailLoop(data, Len(data), <<>>, <<>>, last_n, chunk_size)), last_n)

Reverse(s) == [i \in 1..Len(s) |-> s[Len(s) + 1 - i]]

load_history_tail(exists, data, last_n, master, newest_first, chunk_size) ==
    IF last_n <= 0 \/ ~exists \/ master = NoMaster THEN <<>>
    ELSE LET fernet == _history_key_for_uid(master)
             out == DecodeLines(fernet, tail_lines(data, last_n, chunk_size), FALSE)
         IN IF newest_first THEN Reverse(out) ELSE out

_now_iso == clock

save_turn_line_no_newline(role, content, master) ==
    LET f == _history_key_for_uid(master)
        rec == [ts |-> _now_iso, role |-> role, content |-> content]
    IN FernetEncrypt(f, json_dumps(rec), nonce + 1)

(* save_turn: the text the append-mode write adds to the file *)
save_turn_line(role, content, master) ==
    LET f == _history_key_for_uid(master)
        rec == [ts |-> _now_iso, role |-> role, content |-> content]
    IN FernetEncrypt(f, json_dumps(rec), nonce + 1) \o <<NL>>

NoOp == [op |-> "none", master |-> NoMaster, n |-> 0, chunk |-> 0, rev |-> FALSE]

(* The core is synchronous: a read returns to its caller before the next   *)
(* operation starts.                                                       *)
Idle == last.op = "none"

Return ==
    /\ ~Idle
    /\ result' = <<>>
    /\ last' = NoOp
    /\ UNCHANGED <<hist, histExists, clock, pvars, nonce, appended, fault, inflight, vvars, xvars>>

Tick ==
    /\ Idle
    /\ clock < MaxClock
    /\ clock' = clock + 1
    /\ UNCHANGED <<hist, histExists, nonce, appended, fault, inflight, result, last, vvars, xvars, pvars>>

save_turn(role, content, master) ==
    /\ Idle
    /\ nonce < MaxAppends
    /\ master # NoMaster
    /\ hist' = hist \o save_turn_line(role, content, master)
    /\ histExists' = TRUE
    /\ nonce' = nonce + 1
    /\ appended' = Append(appended,
          [n |-> nonce + 1, master |-> master,
           rec |-> [ts |-> _now_iso, role |-> role, content |-> content]])
    /\ UNCHANGED <<clock, pvars, fault, inflight, result, last, vvars, xvars>>

LoadAll(master) ==
    /\ Idle
    /\ result' = load_history(histExists, hist, 0, master)
    /\ last' = [NoOp EXCEPT !.op = "load_all", !.master = master]
    /\ UNCHANGED <<hist, histExists, clock, pvars, nonce, appended, fault, inflight, vvars, xvars>>

LoadTail(last_n, master, newest_first, chunk_size) ==
    /\ Idle
    /\ result' = load_history_tail(histExists, hist, last_n, master, newest_first, chunk_size)
    /\ last' = [NoOp EXCEPT !.op = "load_tail", !.master = master, !.n = last_n,
                            !.chunk = chunk_size, !.rev = newest_first]
    /\ UNCHANGED <<hist, histExists, clock, pvars, nonce, appended, fault, inflight, vvars, xvars>>

(* _init_history_file_if_missing: an existing file is left as it is *)
_init_history_file_if_missing(exists, data) == IF exists THEN data ELSE HeaderText

reset_user_history_file_no_unlink(exists, data) == _init_history_file_if_missing(exists, data)

(* the file reset_user_history leaves: unlink, then _init_history_file_if_missing *)
reset_user_history_file(exists, data) == _init_history_file_if_missing(FALSE, <<>>)

reset_user_history ==
    /\ Idle
    /\ hist' = reset_user_history_file(histExists, hist)
    /\ histExists' = TRUE
    /\ appended' = <<>>
    /\ UNCHANGED <<clock, pvars, nonce, fault, inflight, result, last, vvars, xvars>>

----------------------------------------------------------------------------
(* Faults of the environment *)

RECURSIVE Join(_)
Join(parts) ==
    IF Len(parts) = 1 THEN parts[1] ELSE parts[1] \o <<NL>> \o Join(Tail(parts))

(* what an altered token line may look like: cut short, one byte flipped,  *)
(* prefixed, blanked                                                       *)
Garbage(line) ==
    { SubSeq(line, 1, Len(line) - 1),
      [line EXCEPT ![Len(line)] = JUNK],
      <<HASH>> \o line,
      <<>> }

(* line k of the file, a token, is altered so that it no longer decrypts *)
Tamper(k, g) ==
    /\ Idle
    /\ fault = "none"
    /\ histExists
    /\ k \in 1..Len(split(hist))
    /\ IsTokenLine(split(hist)[k])
    /\ g \in Garbage(split(hist)[k])
    /\ ~IsTokenLine(strip(g))
    /\ hist' = Join([split(hist) EXCEPT ![k] = g])
    /\ appended' = SelectSeq(appended, LAMBDA e : e.n # split(hist)[k][1].n)
    /\ fault' = "tampered"
    /\ UNCHANGED <<histExists, clock, pvars, nonce, inflight, result, last, vvars, xvars>>

(* the process dies inside save_turn's write: only the first j bytes of    *)
(* the line reach the file                                                 *)
CrashInSaveTurn(role, content, master, j) ==
    /\ Idle
    /\ fault = "none"
    /\ nonce < MaxAppends
    /\ master # NoMaster
    /\ j \in 1..TokLen
    /\ hist' = hist \o SubSeq(save_turn_line(role, content, master), 1, j)
    /\ histExists' = TRUE
    /\ nonce' = nonce + 1
    /\ fault' = "crashed"
    /\ UNCHANGED <<clock, pvars, appended, inflight, result, last, vvars, xvars>>

----------------------------------------------------------------------------
(* Specifications of the history log *)


----------------------------------------------------------------------------
(* core/security.py: the master-password policy.  A passphrase is its     *)
(* sequence of character codes.                                            *)

PwStrong == <<84, 114, 48, 117, 98, 52, 100, 111, 114, 38, 51, 120, 121, 122>>
PwOther == <<67, 111, 114, 114, 101, 99, 116, 45, 72, 111, 114, 115, 101, 45, 57>>
PwShort11 == <<49, 50, 51, 52, 53, 54, 55, 56, 57, 48, 49>>
PwSame12 == <<97, 97, 97, 97, 97, 97, 97, 97, 97, 97, 97, 97>>

PwText(pw) ==
    CASE pw = "Tr0ub4dor&3xyz" -> PwStrong
      [] pw = "Correct-Horse-9" -> PwOther
      [] pw = "12345678901" -> PwShort11
      [] pw = "aaaaaaaaaaaa" -> PwSame12

Passphrases == {"Tr0ub4dor&3xyz", "Correct-Horse-9", "12345678901", "aaaaaaaaaaaa"}

_COMMON_WEAK == {
    <<49, 50, 51, 52, 53, 54>>,
    <<49, 50, 51, 52, 53, 54, 55, 56, 57>>,
    <<49, 50, 51, 52, 53>>,
    <<49, 50, 51, 52>>,
    <<112, 97, 115, 115, 119, 111, 114, 100>>,
    <<112, 97, 115, 115, 119, 111, 114, 116>>,
    <<115, 99, 104, 97, 116, 122>>,
    <<115, 99, 104, 97, 116, 122, 105, 108, 101, 105, 110>>,
    <<49, 49, 49, 49, 49, 49>>,
    <<49, 50, 51, 49, 50, 51>>,
    <<105, 108, 111, 118, 101, 121, 111, 117>>,
    <<97, 100, 109, 105, 110>>,
    <<119, 101, 108, 99, 111, 109, 101>>,
    <<108, 101, 116, 109, 101, 105, 110>>,
    <<112, 119>>,
    <<115, 99, 104, 110, 117, 107, 105>>,
    <<115, 99, 104, 110, 117, 99, 107, 105>>,
    <<109, 111, 110, 107, 101, 121>>,
    <<100, 114, 97, 103, 111, 110>>,
    <<97, 98, 99, 49, 50, 51>>,
    <<49, 113, 50, 119, 51, 101, 52, 114>>,
    <<48, 48, 48, 48, 48, 48>>,
    <<97, 115, 100, 102, 103, 104>>,
    <<102, 114, 101, 100>>,
    <<99, 104, 97, 116, 116, 105>>,
    <<102, 106, 111, 100, 105>> }

_KEYBOARD_SEQ == {
    <<113, 119, 101, 114, 116, 121>>,
    <<113, 119, 101, 114>>,
    <<113, 119, 101, 114, 116>>,
    <<113, 119, 101, 114, 116, 122>>,
    <<97, 115, 100, 102>>,
    <<97, 115, 100, 102, 103>>,
    <<97, 115, 100, 102, 103, 104>>,
    <<122, 120, 99, 118>>,
    <<97, 122, 101, 114, 116, 121>>,
    <<121, 120, 99, 118>>,
    <<121, 120, 99, 118, 98>>,
    <<121, 120, 99, 118, 98, 110>> }

islower(c) == c \in 97..122
isupper(c) == c \in 65..90
isdigit(c) == c \in 48..57
isalnum(c) == islower(c) \/ isupper(c) \/ isdigit(c)

casefold(s) == [i \in 1..Len(s) |-> IF isupper(s[i]) THEN s[i] + 32 ELSE s[i]]

Bit(b) == IF b THEN 1 ELSE 0

_char_classes(s) ==
    Bit(\E i \in 1..Len(s) : islower(s[i])) + Bit(\E i \in 1..Len(s) : isupper(s[i]))
      + Bit(\E i \in 1..Len(s) : isdigit(s[i])) + Bit(\E i \in 1..Len(s) : ~isalnum(s[i]))

(* a run of min_run characters each one above (or each one below) its predecessor *)
_looks_sequential(s, min_run) ==
    /\ Len(s) >= min_run
    /\ \E i \in 1..(Len(s) - min_run + 1) :
          \/ \A j \in 1..(min_run - 1) : s[i + j] - s[i + j - 1] = 1
          \/ \A j \in 1..(min_run - 1) : s[i + j - 1] - s[i + j] = 1

Contains(s, k) == \E i \in 0..(Len(s) - Len(k)) : SubSeq(s, i + 1, i + Len(k)) = k

(* validate_master_password, with zxcvbn (when installed) giving `score` *)
validate_master_password(pw, have_zxcvbn, score) ==
    IF Len(pw) < 12 THEN FALSE
    ELSE IF have_zxcvbn THEN score >= 2
    ELSE LET low == casefold(pw)
         IN /\ low \notin _COMMON_WEAK
            /\ Cardinality({pw[i] : i \in 1..Len(pw)}) # 1
            /\ ~(_looks_sequential(low, 5) \/ \E k \in _KEYBOARD_SEQ : Contains(low, k))
            /\ _char_classes(pw) >= 3

----------------------------------------------------------------------------
(* core/security.py: the secrets file, line by line.  A line is a         *)
(* `key = value` line, a comment, a blank line, or any other text; keys   *)
(* and values are tuples of strings, the empty value being <<>>.          *)

KV(key, value) == [t |-> "kv", k |-> key, v |-> value]
CommentLine(text) == [t |-> "#", k |-> <<>>, v |-> <<text>>]
BlankLine == [t |-> "blank", k |-> <<>>, v |-> <<>>]
RawLine(text) == IF text = <<>> THEN BlankLine ELSE [t |-> "raw", k |-> <<>>, v |-> text]

IsKV(l) == l.t = "kv"

ActiveKey == <<"user", "active">>
VersionKey == <<"version">>
UserKey(uid, field) == <<"user", uid, field>>

(* the comment block _init_secrets_file_if_missing writes, and its blank line *)
SecretsHeader == [i \in 1..7 |-> CommentLine(ToString(i))] \o <<BlankLine>>

SetMin(S) == CHOOSE x \in S : \A y \in S : x <= y
SetMax(S) == CHOOSE x \in S : \A y \in S : x >= y

(* where re.search finds `^\s*key\s*=`: the first line holding the key *)
FirstMatch(lines, key) ==
    LET S == {i \in 1..Len(lines) : IsKV(lines[i]) /\ lines[i].k = key}
    IN IF S = {} THEN 0 ELSE SetMin(S)

NextNonBlank(lines, i) ==
    LET S == {j \in (i + 1)..Len(lines) : lines[j].t # "blank"}
    IN IF S = {} THEN 0 ELSE SetMin(S)

\* write_secret_kv.  In the pattern, the whitespace run after `=` also runs
\* over line ends: when the matched line has an empty value, group 2 is the
\* text of the next non-blank line, and that line is what the substitution
\* replaces by `value`.
write_secret_kv(exists, lines, key, value) ==
    LET txt == IF ~exists THEN SecretsHeader
               ELSE IF lines = <<>> THEN <<CommentLine("chatti-secrets.conf")>>
               ELSE lines
        i == FirstMatch(txt, key)
        j == NextNonBlank(txt, i)
    IN IF i = 0 THEN Append(txt, KV(key, value))
       ELSE IF txt[i].v # <<>> THEN [txt EXCEPT ![i] = KV(key, value)]
       ELSE IF j # 0 THEN [txt EXCEPT ![j] = RawLine(value)]
       ELSE IF value = <<>> THEN txt
       ELSE Append(txt, RawLine(value))

(* read_secrets()[key], or <<>> when the key is absent: the dict keeps the *)
(* value of the last line holding the key                                  *)
SecGet(lines, key) ==
    LET S == {i \in 1..Len(lines) : IsKV(lines[i]) /\ lines[i].k = key}
    IN IF S = {} THEN <<>> ELSE lines[SetMax(S)].v

read_secrets(exists, lines) == IF exists THEN SelectSeq(lines, IsKV) ELSE <<>>

IsUserKey(k) == Len(k) >= 3 /\ k[1] = "user"

_users_in_file(sec) == {sec[i].k[2] : i \in {j \in 1..Len(sec) : IsUserKey(sec[j].k)}}

get_active_uid(exists, lines) == SecGet(read_secrets(exists, lines), ActiveKey)

(* the uid pool, in sorted() order *)
UidPool == [i \in 1..MaxCreates |-> "u" \o ToString(i)]
Uids == {UidPool[i] : i \in 1..MaxCreates}
Rank(uid) == CHOOSE i \in 1..MaxCreates : UidPool[i] = uid
FirstSorted(S) == CHOOSE u \in S : \A w \in S : Rank(u) <= Rank(w)

(* PBKDF2 and the per-field HMAC; HKDF's history key is derive_history_key *)
_derive_key_raw(password, salt) == <<"pbkdf2", password, salt>>
(* mutant: the field name is left out of the HMAC message *)
_field_fernet_no_field(base_raw32, uid, field) == base_raw32 \o <<"chatti|v2", uid>>

_field_fernet(base_raw32, uid, field) == base_raw32 \o <<"chatti|v2", uid, field>>

FieldEncrypt(key, plain) == <<"fernet">> \o key \o <<plain>>
FieldOk(key, token) == Len(token) = Len(key) + 2 /\ SubSeq(token, 1, Len(key) + 1) = <<"fernet">> \o key
FieldDecrypt(token) == token[Len(token)]

_b64u(salt) == <<"b64", salt>>
_b64d_u(text) == text[2]

(* get_api_key_by_uid: what it returns or raises *)
get_api_key_by_uid(exists, lines, uid, master_password) ==
    LET sec == read_secrets(exists, lines)
        salt_b64u == SecGet(sec, UserKey(uid, "kdf_salt"))
        key_ct == SecGet(sec, UserKey(uid, "api_key_enc"))
        f_key == _field_fernet(_derive_key_raw(master_password, _b64d_u(salt_b64u)), uid, "api_key")
    IN IF salt_b64u = <<>> \/ key_ct = <<>> THEN [st |-> "KeyError", val |-> ""]
       ELSE IF FieldOk(f_key, key_ct) THEN [st |-> "ok", val |-> FieldDecrypt(key_ct)]
       ELSE [st |-> "InvalidToken", val |-> ""]

(* _derive_key and decrypt_api_key: the legacy single-user credential *)
_derive_key(password, salt) == <<"pbkdf2-b64", password, salt>>

decrypt_api_key(ciphertext_b64, password, salt_b64) ==
    IF FieldOk(_derive_key(password, _b64d_u(salt_b64)), ciphertext_b64)
    THEN [st |-> "ok", val |-> FieldDecrypt(ciphertext_b64)]
    ELSE [st |-> "InvalidToken", val |-> ""]

(* get_active_api_key: every exception of get_api_key_by_uid is swallowed, *)
(* then the legacy keys are tried, then None is returned                   *)
get_active_api_key(exists, lines, master_password) ==
    LET sec == read_secrets(exists, lines)
        uid == SecGet(sec, ActiveKey)
        by_uid == IF Len(uid) = 1 THEN get_api_key_by_uid(exists, lines, uid[1], master_password)
                  ELSE [st |-> "KeyError", val |-> ""]
        token == SecGet(sec, <<"api_key_enc">>)
        salt == SecGet(sec, <<"kdf_salt">>)
    IN IF uid # <<>> /\ by_uid.st = "ok" THEN by_uid
       ELSE IF token # <<>> /\ salt # <<>> THEN decrypt_api_key(token, master_password, salt)
       ELSE [st |-> "None", val |-> ""]

(* display names as code points, for casefold and the order of str *)
NameText(name) ==
    CASE name = "alice" -> <<97, 108, 105, 99, 101>>
      [] name = "Bob" -> <<66, 111, 98>>
      [] OTHER -> <<>>

RECURSIVE StrLess(_, _)
StrLess(a, b) ==
    IF b = <<>> THEN FALSE
    ELSE IF a = <<>> THEN TRUE
    ELSE IF a[1] # b[1] THEN a[1] < b[1]
    ELSE StrLess(Tail(a), Tail(b))

(* the sort key of list_users_decrypted: (t[1] or "").casefold() *)
SortKey(t) == casefold(NameText(t[2]))

(* list.sort(key=...): stable *)
RECURSIVE StableSort(_)
StableSort(seq) ==
    IF seq = <<>> THEN <<>>
    ELSE LET rest == StableSort(SubSeq(seq, 1, Len(seq) - 1))
             e == seq[Len(seq)]
             k == Cardinality({i \in 1..Len(rest) : ~StrLess(SortKey(e), SortKey(rest[i]))})
         IN SubSeq(rest, 1, k) \o <<e>> \o SubSeq(rest, k + 1, Len(rest))

(* the orders in which `for uid in _users_in_file(sec)` can visit a set *)
Orders(S) == {f \in [1..Cardinality(S) -> S] : \A i, j \in 1..Cardinality(S) : f[i] = f[j] => i = j}

_b64d_u_padded(text) == _b64d_u(text)

RECURSIVE ListLoop_no_auth(_, _, _)
ListLoop_no_auth(sec, master_password, order) ==
    IF order = <<>> THEN <<>>
    ELSE LET uid == order[1]
             salt_b64u == SecGet(sec, UserKey(uid, "kdf_salt"))
             name_ct == SecGet(sec, UserKey(uid, "username_enc"))
             f_user == _field_fernet(_derive_key_raw(master_password, _b64d_u_padded(salt_b64u)), uid, "username")
             rest == ListLoop_no_auth(sec, master_password, Tail(order))
         IN IF salt_b64u = <<>> \/ name_ct = <<>> THEN rest
            ELSE << <<uid, FieldDecrypt(name_ct)>> >> \o rest

(* the loop of list_users_decrypted: entries without salt or name and *)
(* entries whose name does not decrypt are skipped                    *)
RECURSIVE ListLoop(_, _, _)
ListLoop(sec, master_password, order) ==
    IF order = <<>> THEN <<>>
    ELSE LET uid == order[1]
             salt_b64u == SecGet(sec, UserKey(uid, "kdf_salt"))
             name_ct == SecGet(sec, UserKey(uid, "username_enc"))
             f_user == _field_fernet(_derive_key_raw(master_password, _b64d_u_padded(salt_b64u)), uid, "username")
             rest == ListLoop(sec, master_password, Tail(order))
         IN IF salt_b64u = <<>> \/ name_ct = <<>> THEN rest
            ELSE IF FieldOk(f_user, name_ct) THEN << <<uid, FieldDecrypt(name_ct)>> >> \o rest
            ELSE rest

(* list_users_decrypted(master_password), the set visited in `order` *)
list_users_decrypted(exists, lines, master_password, order) ==
    StableSort(ListLoop(read_secrets(exists, lines), master_password, order))

(* str.strip() on code points *)
RECURSIVE str_lstrip(_)
str_lstrip(s) == IF s # <<>> /\ s[1] = 32 THEN str_lstrip(Tail(s)) ELSE s
RECURSIVE str_rstrip(_)
str_rstrip(s) == IF s # <<>> /\ s[Len(s)] = 32 THEN str_rstrip(SubSeq(s, 1, Len(s) - 1)) ELSE s
str_strip(s) == str_rstrip(str_lstrip(s))

(* _norm_user on names without inner whitespace: strip, casefold *)
_norm_user(u) == casefold(str_strip(u))

(* the matches of _resolve_uid: exact equality after strip *)
ResolveMatches(users, needle) ==
    SelectSeq(users, LAMBDA t : str_strip(NameText(t[2])) = NameText(needle))

(* input() of _resolve_uid as the index typed; 0 stands for no digits *)
Selections == {0, 1, 3}

(* _resolve_uid(name_or_uid, master_password), with the order in which the *)
(* identities are visited and the answer typed at the prompt               *)
_resolve_uid(exists, lines, name_or_uid, master_password, order, sel) ==
    LET sec == read_secrets(exists, lines)
        users == list_users_decrypted(exists, lines, master_password, order)
        matches == ResolveMatches(users, name_or_uid)
    IN IF name_or_uid = "" THEN [st |-> "RuntimeError", val |-> "Benutzer nicht gefunden"]
       ELSE IF SecGet(sec, UserKey(name_or_uid, "kdf_salt")) # <<>> THEN [st |-> "ok", val |-> name_or_uid]
       ELSE IF matches = <<>> THEN [st |-> "RuntimeError", val |-> "Benutzer nicht gefunden"]
       ELSE IF Len(matches) = 1 THEN [st |-> "ok", val |-> matches[1][1]]
       ELSE IF sel = 0 THEN [st |-> "RuntimeError", val |-> "Abgebrochen."]
       ELSE IF sel <= Len(matches) THEN [st |-> "ok", val |-> matches[sel][1]]
       ELSE [st |-> "RuntimeError", val |-> "Ungueltige Auswahl."]

(* the uids list_users_decrypted gives whose normalised name is the target *)
NameMatches(users, username) ==
    SelectSeq(users, LAMBDA t : _norm_user(NameText(t[2])) = _norm_user(NameText(username)))

RECURSIVE WriteAll(_, _, _)
WriteAll(exists, lines, kvs) ==
    IF kvs = <<>> THEN lines
    ELSE WriteAll(TRUE, write_secret_kv(exists, lines, kvs[1][1], kvs[1][2]), Tail(kvs))

urandom(uid) == "salt-" \o uid

(* the writes add_user makes, in order: six keys, then set_admin for a first user *)
add_user_writes(exists, lines, uid, name, master_password, api_key) ==
    LET pre_uids == _users_in_file(read_secrets(exists, lines))
        is_first_user == pre_uids = {}
        salt == urandom(uid)
        base_raw == _derive_key_raw(master_password, salt)
        token_user == FieldEncrypt(_field_fernet(base_raw, uid, "username"), name)
        token_key == FieldEncrypt(_field_fernet(base_raw, uid, "api_key"), api_key)
        writes == << <<VersionKey, <<"2">> >>,
                     <<UserKey(uid, "kdf_salt"), _b64u(salt)>>,
                     <<UserKey(uid, "username_enc"), token_user>>,
                     <<UserKey(uid, "api_key_enc"), token_key>>,
                     <<UserKey(uid, "updated_at"), <<ToString(_now_iso)>> >>,
                     <<ActiveKey, <<uid>> >> >>
        set_admin == IF is_first_user THEN << <<UserKey(uid, "is_admin"), <<"1">> >> >> ELSE <<>>
    IN writes \o set_admin

add_user_file_always_admin(exists, lines, uid, name, master_password, api_key) ==
    WriteAll(exists, lines,
             add_user_writes(exists, lines, uid, name, master_password, api_key)
                 \o << <<UserKey(uid, "is_admin"), <<"1">> >> >>)

(* the file add_user leaves *)
add_user_file(exists, lines, uid, name, master_password, api_key) ==
    WriteAll(exists, lines, add_user_writes(exists, lines, uid, name, master_password, api_key))

(* is_admin(uid) *)
is_admin(exists, lines, uid) ==
    LET v == SecGet(read_secrets(exists, lines), UserKey(uid, "is_admin"))
    IN v \in {<<"1">>, <<"true">>, <<"yes">>}

RECURSIVE DropTrailingBlank(_)
DropTrailingBlank(lines) ==
    IF lines # <<>> /\ lines[Len(lines)].t = "blank"
    THEN DropTrailingBlank(SubSeq(lines, 1, Len(lines) - 1))
    ELSE lines

NotOf(uid, l) == ~(IsKV(l) /\ Len(l.k) >= 3 /\ l.k[1] = "user" /\ l.k[2] = uid)

(* remove_user_entry_by_uid without the repointing of user.active *)
remove_user_entry_file_no_repoint(exists, lines, uid) ==
    IF ~exists \/ lines = <<>> THEN lines
    ELSE LET out == SelectSeq(lines, LAMBDA l : NotOf(uid, l))
             joined == DropTrailingBlank(out)
         IN IF joined = <<>> THEN <<BlankLine>> ELSE joined

(* the file remove_user_entry_by_uid leaves *)
remove_user_entry_file(exists, lines, uid) ==
    IF ~exists \/ lines = <<>> THEN lines
    ELSE LET out == SelectSeq(lines, LAMBDA l : NotOf(uid, l))
             sec_after == SelectSeq(out, IsKV)
             remaining_uids == _users_in_file(sec_after)
             new_active == IF remaining_uids = {} THEN <<>> ELSE <<FirstSorted(remaining_uids)>>
             i == FirstMatch(out, ActiveKey)
             out2 == IF SecGet(sec_after, ActiveKey) # <<uid>> THEN out
                     ELSE IF i # 0 THEN [out EXCEPT ![i] = KV(ActiveKey, new_active)]
                     ELSE Append(out, KV(ActiveKey, new_active))
             joined == DropTrailingBlank(out2)
         IN IF joined = <<>> THEN <<BlankLine>> ELSE joined

(* prune_orphan_user_dirs: the directories it leaves *)
prune_orphan_user_dirs(exists, lines, ds) ==
    ds \cap _users_in_file(read_secrets(exists, lines))

(* prune_orphan_secret_entries: the file it leaves; user.active is no user.<uid>.<field> key *)
prune_orphan_secret_entries(exists, lines, ds) ==
    IF ~exists THEN lines
    ELSE SelectSeq(lines, LAMBDA l : ~(IsKV(l) /\ IsUserKey(l.k) /\ l.k[2] \notin ds))

VOp(op, uid, pw, cred, prevActive) ==
    [op |-> op, uid |-> uid, pw |-> pw, cred |-> cred, prevActive |-> prevActive]
NoVOp == VOp("none", "", "", "", <<>>)
NoRet == [st |-> "none", val |-> ""]

_new_uid == UidPool[Cardinality(used) + 1]

(* the arguments of one add_user call and the uid it returned *)
Created(uid, name, pw, cred) == [uid |-> uid, name |-> name, pw |-> pw, cred |-> cred]

(* add_user(name, master_password, api_key) *)
add_user(name, master_password, api_key) ==
    /\ Cardinality(used) < MaxCreates
    /\ LET uid == _new_uid
       IN /\ secrets' = add_user_file(secretsExists, secrets, uid, name, master_password, api_key)
          /\ secretsExists' = TRUE
          /\ dirs' = dirs \cup {uid}
          /\ used' = used \cup {uid}
          /\ created' = created \cup {Created(uid, name, master_password, api_key)}
          /\ vlast' = VOp("add_user", uid, master_password, api_key, get_active_uid(secretsExists, secrets))
          /\ vret' = [st |-> "ok", val |-> uid]
    /\ UNCHANGED <<clock, pvars, pending, hvars, xvars>>

(* _prompt_master_retry returns only a passphrase the policy accepts *)
_prompt_master_retry(pw) == validate_master_password(PwText(pw), FALSE, 0)

(* _interactive_user_onboarding: prompt, add_user, set_active_user_by_uid *)
_interactive_user_onboarding(name, pw, api_key) ==
    /\ Cardinality(used) < MaxCreates
    /\ _prompt_master_retry(pw)
    /\ LET uid == _new_uid
           added == add_user_file(secretsExists, secrets, uid, name, pw, api_key)
       IN /\ secrets' = write_secret_kv(TRUE, added, ActiveKey, <<uid>>)
          /\ secretsExists' = TRUE
          /\ dirs' = dirs \cup {uid}
          /\ used' = used \cup {uid}
          /\ created' = created \cup {Created(uid, name, pw, api_key)}
          /\ vlast' = VOp("onboarding", uid, pw, api_key, get_active_uid(secretsExists, secrets))
          /\ vret' = [st |-> "ok", val |-> uid]
    /\ UNCHANGED <<clock, pvars, pending, hvars, xvars>>

(* set_active_user_by_uid(uid), called with an id read from the store *)
set_active_user_by_uid(uid) ==
    /\ uid \in _users_in_file(read_secrets(secretsExists, secrets))
    /\ secrets' = write_secret_kv(secretsExists, secrets, ActiveKey, <<uid>>)
    /\ secretsExists' = TRUE
    /\ dirs' = dirs \cup {uid}
    /\ vlast' = VOp("activate", uid, "", "", get_active_uid(secretsExists, secrets))
    /\ vret' = NoRet
    /\ UNCHANGED <<used, created, clock, pvars, pending, hvars, xvars>>

(* remove_user_entry_by_uid(uid) *)
remove_user_entry_by_uid(uid) ==
    /\ secrets' = remove_user_entry_file(secretsExists, secrets, uid)
    /\ vlast' = VOp("remove", uid, "", "", get_active_uid(secretsExists, secrets))
    /\ vret' = NoRet
    /\ UNCHANGED <<secretsExists, dirs, used, created, clock, pvars, pending, hvars, xvars>>

_looks_like_existing_uid(uid) ==
    SecGet(read_secrets(secretsExists, secrets), UserKey(uid, "kdf_salt")) # <<>>

(* cli_user_remove(uid, hard=True): remove_user_entry_by_uid, _delete_user_files, *)
(* prune_orphan_user_dirs                                                        *)
cli_user_remove_hard(uid) ==
    /\ _looks_like_existing_uid(uid)
    /\ LET after == remove_user_entry_file(secretsExists, secrets, uid)
       IN /\ secrets' = after
          /\ dirs' = prune_orphan_user_dirs(secretsExists, after, dirs \ {uid})
    /\ vlast' = VOp("remove", uid, "", "", get_active_uid(secretsExists, secrets))
    /\ vret' = NoRet
    /\ UNCHANGED <<secretsExists, used, created, clock, pvars, pending, hvars, xvars>>

(* the directories of uid are gone when the program next starts: the state *)
(* prune_orphan_secret_entries reads from users/                           *)
UserDirsLost(uid) ==
    /\ uid \in dirs
    /\ dirs' = dirs \ {uid}
    /\ vlast' = VOp("dirs_lost", uid, "", "", get_active_uid(secretsExists, secrets))
    /\ vret' = NoRet
    /\ UNCHANGED <<secrets, secretsExists, used, created, clock, pvars, pending, hvars, xvars>>

(* main(): prune_orphan_user_dirs, then prune_orphan_secret_entries *)
main_prune ==
    /\ LET ds == prune_orphan_user_dirs(secretsExists, secrets, dirs)
       IN /\ dirs' = ds
          /\ secrets' = prune_orphan_secret_entries(secretsExists, secrets, ds)
    /\ vlast' = VOp("prune", "", "", "", get_active_uid(secretsExists, secrets))
    /\ vret' = NoRet
    /\ UNCHANGED <<secretsExists, used, created, clock, pvars, pending, hvars, xvars>>

(* a call of get_api_key_by_uid(uid, master_password) and what comes back *)
call_get_api_key_by_uid(uid, master_password) ==
    /\ vlast' = VOp("get", uid, master_password, "", get_active_uid(secretsExists, secrets))
    /\ vret' = get_api_key_by_uid(secretsExists, secrets, uid, master_password)
    /\ UNCHANGED <<secrets, secretsExists, dirs, used, created, clock, pvars, pending, hvars, xvars>>

(* a call of get_active_api_key(master_password) and what comes back *)
call_get_active_api_key(master_password) ==
    /\ vlast' = VOp("get_active", "", master_password, "", get_active_uid(secretsExists, secrets))
    /\ vret' = get_active_api_key(secretsExists, secrets, master_password)
    /\ UNCHANGED <<secrets, secretsExists, dirs, used, created, clock, pvars, pending, hvars, xvars>>

(* a call of list_users_decrypted(master_password) and what comes back *)
call_list_users_decrypted(master_password) ==
    /\ \E order \in Orders(_users_in_file(read_secrets(secretsExists, secrets))) :
           vret' = [st |-> "ok", val |-> list_users_decrypted(secretsExists, secrets, master_password, order)]
    /\ vlast' = VOp("list", "", master_password, "", get_active_uid(secretsExists, secrets))
    /\ UNCHANGED <<secrets, secretsExists, dirs, used, created, clock, pvars, pending, hvars, xvars>>

(* a call of _resolve_uid(name_or_uid, master_password) and what comes back *)
call__resolve_uid(name_or_uid, master_password, sel) ==
    /\ \E order \in Orders(_users_in_file(read_secrets(secretsExists, secrets))) :
           vret' = _resolve_uid(secretsExists, secrets, name_or_uid, master_password, order, sel)
    /\ vlast' = VOp("resolve", name_or_uid, master_password, "", get_active_uid(secretsExists, secrets))
    /\ UNCHANGED <<secrets, secretsExists, dirs, used, created, clock, pvars, pending, hvars, xvars>>

(* set_active_user_by_username(username, master_password): the first match *)
(* becomes the active uid                                                  *)
set_active_user_by_username(username, master_password) ==
    /\ \E order \in Orders(_users_in_file(read_secrets(secretsExists, secrets))) :
          LET found == NameMatches(list_users_decrypted(secretsExists, secrets, master_password, order), username)
          IN IF found = <<>>
             THEN /\ vret' = [st |-> "KeyError", val |-> ""]
                  /\ UNCHANGED <<secrets, secretsExists>>
             ELSE /\ secrets' = write_secret_kv(secretsExists, secrets, ActiveKey, <<found[1][1]>>)
                  /\ secretsExists' = TRUE
                  /\ vret' = [st |-> "ok", val |-> found[1][1]]
    /\ vlast' = VOp("use_by_name", username, master_password, "", get_active_uid(secretsExists, secrets))
    /\ UNCHANGED <<dirs, used, created, clock, pvars, pending, hvars, xvars>>

(* the purposes keys are derived for: the fields add_user encrypts, for   *)
(* each uid, and the history of an identity                              *)
Fields == {"username", "api_key"}
Purpose(kind, uid, field) == [kind |-> kind, uid |-> uid, field |-> field]
HistoryPurpose == Purpose("history", "", "")
Purposes == {Purpose("field", uid, field) : uid \in Uids, field \in Fields} \cup {HistoryPurpose}

(* the Fernet key of a purpose, from a passphrase and a salt *)
PurposeKey(p, master, salt) ==
    IF p.kind = "field" THEN _field_fernet(_derive_key_raw(master, salt), p.uid, p.field)
    ELSE derive_history_key(master, salt)

(* a token of a purpose, as add_user or save_turn encrypts it *)
PurposeToken(p, master, salt, plain) ==
    IF p.kind = "field" THEN FieldEncrypt(PurposeKey(p, master, salt), plain)
    ELSE FernetEncrypt(PurposeKey(p, master, salt), plain, 0)

(* Fernet(key).decrypt(token) *)
PurposeDecryptOk(p, key, token) ==
    IF p.kind = "field" THEN FieldOk(key, token) ELSE FernetOk(key, token)

(* with a passphrase and the stored salt of identity `owner`: a token is    *)
(* encrypted for purpose tp and Fernet.decrypt is called on it with the    *)
(* key of purpose kp                                                       *)
decrypt_under(owner, master, tp, kp) ==
    /\ SecGet(read_secrets(secretsExists, secrets), UserKey(owner, "kdf_salt")) # <<>>
    /\ LET sec == read_secrets(secretsExists, secrets)
           salt == _b64d_u_padded(SecGet(sec, UserKey(owner, "kdf_salt")))
           token == PurposeToken(tp, master, salt, "hi")
       IN vret' = [st |-> IF PurposeDecryptOk(tp, PurposeKey(kp, master, salt), token) THEN "ok" ELSE "InvalidToken",
                   val |-> <<tp, kp>>]
    /\ vlast' = VOp("decrypt", owner, master, "", get_active_uid(secretsExists, secrets))
    /\ UNCHANGED <<secrets, secretsExists, dirs, used, created, clock, pvars, pending, hvars, xvars>>

VaultInit ==
    /\ secrets = <<>>
    /\ secretsExists = FALSE
    /\ dirs = {}
    /\ used = {}
    /\ created = {}
    /\ vlast = NoVOp
    /\ vret = NoRet
    /\ pending = <<>>

Names == {"alice", "Bob"}
ApiKeys == {"sk-1", "sk-2"}

----------------------------------------------------------------------------
(* core/history.py: export and import.  The text of a dump is a sequence   *)
(* of characters; a record's content is a sequence of characters too, of   *)
(* which "LF" is a line feed and "LS" the line separator U+2028.           *)

ExportPws == {"ex1", "ex2"}
FreshSalt == "salt2"
ExportSalt == "xsalt"
EnvMasters == {"pw1", NoMaster}
ExportTurns == {<<"user", <<"h">> >>, <<"assistant", <<>> >>, <<"user", <<"h", "LF">> >>, <<"user", <<"LS">> >>}

Ch(c, ts, role) == [ch |-> c, ts |-> ts, role |-> role]
LF == Ch("LF", 0, "")

(* json.dumps(rec, ensure_ascii=False): a line feed is written as the two  *)
(* characters \n, U+2028 is written as it is                               *)
EscapeChar(c) == IF c = "LF" THEN "\\n" ELSE c
UnescapeChar(c) == IF c = "\\n" THEN "LF" ELSE c

json_dumps_text(rec) ==
    <<Ch("{", rec.ts, rec.role)>>
        \o [i \in 1..Len(rec.content) |-> Ch(EscapeChar(rec.content[i]), 0, "")]
        \o <<Ch("}", 0, "")>>

(* json.loads(line) of one line: a whole object, or an exception *)
json_loads_ok(line) ==
    /\ Len(line) >= 2
    /\ line[1].ch = "{"
    /\ line[Len(line)].ch = "}"
    /\ \A i \in 2..(Len(line) - 1) : line[i].ch \notin {"{", "}", "LF", "LS"}

json_loads_text(line) ==
    [ts |-> line[1].ts, role |-> line[1].role,
     content |-> [i \in 1..(Len(line) - 2) |-> UnescapeChar(line[i + 1].ch)]]

(* "\n".join(texts) *)
RECURSIVE JoinLF(_)
JoinLF(texts) ==
    IF texts = <<>> THEN <<>>
    ELSE IF Len(texts) = 1 THEN texts[1]
    ELSE texts[1] \o <<LF>> \o JoinLF(Tail(texts))

(* str.splitlines(): a line ends at a line feed and at U+2028 alike *)
RECURSIVE StrSplitFrom(_, _, _)
StrSplitFrom(text, i, cur) ==
    IF i > Len(text) THEN (IF cur = <<>> THEN <<>> ELSE <<cur>>)
    ELSE IF text[i].ch \in {"LF", "LS"} THEN <<cur>> \o StrSplitFrom(text, i + 1, <<>>)
    ELSE StrSplitFrom(text, i + 1, Append(cur, text[i]))

str_splitlines(text) == StrSplitFrom(text, 1, <<>>)

(* the loop of history_import over the lines of the plaintext *)
RECURSIVE ParseRecords(_)
ParseRecords(lines) ==
    IF lines = <<>> THEN <<>>
    ELSE IF json_loads_ok(Head(lines))
         THEN <<json_loads_text(Head(lines))>> \o ParseRecords(Tail(lines))
         ELSE ParseRecords(Tail(lines))

_scrypt_derive_key(passphrase, salt) == <<"scrypt", passphrase, salt>>

(* the dump document; `exported` is what load_history returned, kept for   *)
(* comparison and not part of the file                                     *)
Doc(fmt, key, payload, exported) == [fmt |-> fmt, key |-> key, payload |-> payload, exported |-> exported]
NoDump == Doc("none", <<>>, <<>>, <<>>)

XOp(op, pw, env, st, n, replace, intoFresh) ==
    [op |-> op, pw |-> pw, env |-> env, st |-> st, n |-> n, replace |-> replace, intoFresh |-> intoFresh]
NoXOp == XOp("none", "", NoMaster, "none", 0, FALSE, FALSE)

(* dump_history_encrypted(dst, passphrase); load_history takes the master  *)
(* from the environment                                                    *)
dump_history_encrypted(passphrase, env) ==
    /\ Idle
    /\ LET records == load_history(histExists, hist, 0, env)
           payload == JoinLF([i \in 1..Len(records) |-> json_dumps_text(records[i])])
       IN /\ dump' = Doc("chatti-hist-v1", _scrypt_derive_key(passphrase, ExportSalt), payload, records)
          /\ xlast' = XOp("export", passphrase, env, "ok", Len(records), FALSE, FALSE)
    /\ UNCHANGED <<fresh, imports, clock, pvars, hvars, vvars>>

ImportLines_skip_empty(records, env, k) ==
    LET kept == SelectSeq(records, LAMBDA r : r.content # <<>>)
    IN Flatten([i \in 1..Len(kept) |->
        FernetEncrypt(derive_history_key(env, FreshSalt),
                      json_dumps([ts |-> _now_iso, role |-> kept[i].role, content |-> kept[i].content]),
                      MaxAppends + k * (MaxAppends + 1) + i) \o <<NL>>])

(* the lines save_turn appends for the imported records *)
ImportLines(records, env, k) ==
    Flatten([i \in 1..Len(records) |->
        FernetEncrypt(derive_history_key(env, FreshSalt),
                      json_dumps([ts |-> _now_iso, role |-> records[i].role, content |-> records[i].content]),
                      MaxAppends + k * (MaxAppends + 1) + i) \o <<NL>>])

(* history_import(src, export_passphrase, replace) into the fresh identity *)
history_import(export_passphrase, replace, env) ==
    /\ Idle
    /\ imports < MaxImports
    /\ dump.fmt \in {"chatti-hist-v1", "plain"}
    /\ imports' = imports + 1
    /\ LET is_enc == dump.fmt = "chatti-hist-v1"
           ok == ~is_enc \/ dump.key = _scrypt_derive_key(export_passphrase, ExportSalt)
           records == ParseRecords(str_splitlines(dump.payload))
           base == IF replace THEN HeaderText ELSE fresh
           wasFresh == replace \/ fresh = HeaderText
       IN IF ~ok
          THEN /\ fresh' = fresh
               /\ xlast' = XOp("import", export_passphrase, env, "ValueError", 0, replace, wasFresh)
          ELSE IF records # <<>> /\ env = NoMaster
          THEN /\ fresh' = base
               /\ xlast' = XOp("import", export_passphrase, env, "RuntimeError", 0, replace, wasFresh)
          ELSE /\ fresh' = base \o ImportLines(records, env, imports)
               /\ xlast' = XOp("import", export_passphrase, env, "ok", Len(records), replace, wasFresh)
    /\ UNCHANGED <<dump, clock, pvars, hvars, vvars>>

(* load_history(uid = the fresh identity, master) *)
load_history_fresh(data, master) ==
    IF master = NoMaster THEN <<>>
    ELSE DecodeLines(derive_history_key(master, FreshSalt), splitlines(data), TRUE)

ExportInit ==
    /\ dump = NoDump
    /\ fresh = HeaderText
    /\ imports = 0
    /\ xlast = NoXOp

HistInit ==
    /\ histExists \in BOOLEAN
    /\ hist = IF histExists THEN HeaderText ELSE <<>>
    /\ clock = 0
    /\ nonce = 0
    /\ appended = <<>>
    /\ fault = "none"
    /\ inflight = <<>>
    /\ result = <<>>
    /\ last = NoOp

Reads ==
    \/ \E master \in Masters \cup {NoMaster} : LoadAll(master)
    \/ \E n \in LastNs, master \in Masters \cup {NoMaster}, rev \in BOOLEAN, cs \in ChunkSizes :
          LoadTail(n, master, rev, cs)
    \/ Return

----------------------------------------------------------------------------
(* core/security.py: the admin PIN and its interactive change.  What the   *)
(* user types at a getpass prompt is an input; Interrupt stands for        *)
(* KeyboardInterrupt or EOFError raised by the prompt.                     *)

NoPin == ""
Interrupt == "^C"
Pins == {"Tr0ub4dor&3xyz", "Correct-Horse-9", "12345678901"}
Typed == Pins \cup {"", Interrupt}
MaxTriesSet == 1..MaxTries

NoCall == [step |-> "idle", max |-> 0, tries |-> 0, current |-> "", p1 |-> "", ret |-> "none",
           cancelled |-> FALSE, wrong |-> 0]

validate_admin_secret(pw) ==
    IF pw = "" THEN FALSE ELSE validate_master_password(PwText(pw), FALSE, 0)

has_admin_pin(stored) == stored # NoPin

verify_admin_pin(stored, p) == stored # NoPin /\ p = stored

(* set_admin_pin: the PIN the file holds afterwards, or the error raised *)
set_admin_pin(stored, p) ==
    IF ~validate_admin_secret(p) THEN [st |-> "RuntimeError", pin |-> stored]
    ELSE [st |-> "ok", pin |-> p]

(* change_admin_pin: a wrong current PIN is reported as RuntimeError *)
change_admin_pin(stored, current_pin, new_pin) ==
    IF ~validate_admin_secret(new_pin) THEN [st |-> "RuntimeError", pin |-> stored]
    ELSE IF ~has_admin_pin(stored) THEN set_admin_pin(stored, new_pin)
    ELSE IF ~verify_admin_pin(stored, current_pin) THEN [st |-> "RuntimeError", pin |-> stored]
    ELSE set_admin_pin(stored, new_pin)

Returned(c, value) == [c EXCEPT !.step = "returned", !.ret = value]

(* the head of the while loop: one more try, or "Zu viele Fehlversuche" *)
LoopHead(c) ==
    IF c.tries < c.max THEN [c EXCEPT !.tries = c.tries + 1, !.step = "current"]
    ELSE Returned(c, "False")

PinInit ==
    /\ adminPin = NoPin
    /\ pin = NoCall

(* change_admin_pin_interactive(max_tries) is called *)
change_admin_pin_interactive(max_tries) ==
    /\ pin.step = "idle"
    /\ pin' = IF ~has_admin_pin(adminPin)
              THEN [NoCall EXCEPT !.step = "setup_new", !.max = max_tries]
              ELSE LoopHead([NoCall EXCEPT !.max = max_tries])
    /\ UNCHANGED <<adminPin, clock, hvars, vvars, xvars>>

(* ensure_admin_pin_initialized_interactive(strict=True): the first prompt *)
setup_new(typed) ==
    /\ pin.step = "setup_new"
    /\ pin' = IF typed = Interrupt THEN Returned([pin EXCEPT !.cancelled = TRUE], "RuntimeError")
              ELSE IF ~validate_admin_secret(typed) THEN pin
              ELSE [pin EXCEPT !.step = "setup_repeat", !.p1 = typed]
    /\ UNCHANGED <<adminPin, clock, hvars, vvars, xvars>>

(* its second prompt, and set_admin_pin when both entries agree *)
setup_repeat(typed) ==
    /\ pin.step = "setup_repeat"
    /\ IF typed = Interrupt
       THEN /\ pin' = Returned([pin EXCEPT !.cancelled = TRUE], "RuntimeError")
            /\ UNCHANGED adminPin
       ELSE IF typed # pin.p1
       THEN /\ pin' = [pin EXCEPT !.step = "setup_new"]
            /\ UNCHANGED adminPin
       ELSE /\ adminPin' = set_admin_pin(adminPin, pin.p1).pin
            /\ pin' = Returned(pin, IF set_admin_pin(adminPin, pin.p1).st = "ok" THEN "True" ELSE "RuntimeError")
    /\ UNCHANGED <<clock, hvars, vvars, xvars>>

(* the prompt for the current PIN *)
getpass_current(typed) ==
    /\ pin.step = "current"
    /\ pin' = IF typed = Interrupt THEN Returned([pin EXCEPT !.cancelled = TRUE], "False")
              ELSE IF typed = "" THEN LoopHead(pin)
              ELSE [pin EXCEPT !.step = "new", !.current = typed]
    /\ UNCHANGED <<adminPin, clock, hvars, vvars, xvars>>

(* the prompt for the new PIN, checked against the policy *)
getpass_new(typed) ==
    /\ pin.step = "new"
    /\ pin' = IF typed = Interrupt THEN Returned([pin EXCEPT !.cancelled = TRUE], "False")
              ELSE IF ~validate_admin_secret(typed) THEN LoopHead(pin)
              ELSE [pin EXCEPT !.step = "repeat", !.p1 = typed]
    /\ UNCHANGED <<adminPin, clock, hvars, vvars, xvars>>

(* the prompt for the repetition, then change_admin_pin and the handlers   *)
(* around it: ValueError tries again, every other exception returns False  *)
getpass_repeat(typed) ==
    /\ pin.step = "repeat"
    /\ IF typed = Interrupt
       THEN /\ pin' = Returned([pin EXCEPT !.cancelled = TRUE], "False")
            /\ UNCHANGED adminPin
       ELSE IF typed # pin.p1
       THEN /\ pin' = LoopHead(pin)
            /\ UNCHANGED adminPin
       ELSE LET r == change_admin_pin(adminPin, pin.current, pin.p1)
                c == [pin EXCEPT !.wrong = IF verify_admin_pin(adminPin, pin.current) THEN @ ELSE @ + 1]
            IN /\ adminPin' = r.pin
               /\ pin' = CASE r.st = "ok" -> Returned(c, "True")
                           [] r.st = "ValueError" -> LoopHead(c)
                           [] OTHER -> Returned(c, "False")
    /\ UNCHANGED <<clock, hvars, vvars, xvars>>

(* the caller takes the result *)
pin_return ==
    /\ pin.step = "returned"
    /\ pin' = NoCall
    /\ UNCHANGED <<adminPin, clock, hvars, vvars, xvars>>

NextPin ==
    \/ \E max_tries \in MaxTriesSet : change_admin_pin_interactive(max_tries)
    \/ \E typed \in Typed : setup_new(typed)
    \/ \E typed \in Typed : setup_repeat(typed)
    \/ \E typed \in Typed : getpass_current(typed)
    \/ \E typed \in Typed : getpass_new(typed)
    \/ \E typed \in Typed : getpass_repeat(typed)
    \/ pin_return

Init == HistInit /\ VaultInit /\ ExportInit /\ PinInit

SpecPin == Init /\ [][NextPin]_vars

Next ==
    \/ Tick
    \/ \E t \in Turns, master \in Masters : save_turn(t[1], t[2], master)
    \/ reset_user_history
    \/ Reads

Spec == Init /\ [][Next]_vars

NextTamper ==
    \/ Tick
    \/ \E t \in Turns : save_turn(t[1], t[2], "pw1")
    \/ \E k \in 1..(MaxAppends + 2), g \in UNION {Garbage(l) : l \in {split(hist)[i] : i \in 1..Len(split(hist))} \ {<<>>}} :
          Tamper(k, g)
    \/ Reads

SpecTamper == Init /\ [][NextTamper]_vars

NextCrash ==
    \/ Tick
    \/ \E t \in Turns : save_turn(t[1], t[2], "pw1")
    \/ \E t \in Turns, j \in 1..TokLen : CrashInSaveTurn(t[1], t[2], "pw1", j)
    \/ Reads

SpecCrash == Init /\ [][NextCrash]_vars

----------------------------------------------------------------------------
(* One writer and one reader at the same time: the bytes of the line       *)
(* save_turn writes reach the file in pieces, and a read sees the file as  *)
(* it stands between two pieces.                                            *)

(* save_turn up to the call of fh.write: the line is built *)
save_turn_begin(role, content, master) ==
    /\ inflight = <<>>
    /\ nonce < MaxAppends
    /\ master # NoMaster
    /\ inflight' = save_turn_line(role, content, master)
    /\ nonce' = nonce + 1
    /\ appended' = Append(appended,
          [n |-> nonce + 1, master |-> master,
           rec |-> [ts |-> _now_iso, role |-> role, content |-> content]])
    /\ UNCHANGED <<hist, histExists, clock, pvars, fault, result, last, vvars, xvars>>

(* the next k bytes of the line reach the file (opened in append mode) *)
save_turn_write(k) ==
    /\ inflight # <<>>
    /\ k <= Len(inflight)
    /\ hist' = hist \o SubSeq(inflight, 1, k)
    /\ histExists' = TRUE
    /\ inflight' = SubSeq(inflight, k + 1, Len(inflight))
    /\ UNCHANGED <<clock, pvars, nonce, appended, fault, result, last, vvars, xvars>>

NextConcurrent ==
    \/ Tick
    \/ \E t \in Turns, m \in Masters : save_turn_begin(t[1], t[2], m)
    \/ \E k \in 1..(TokLen + 1) : save_turn_write(k)
    \/ Reads

SpecConcurrent == Init /\ [][NextConcurrent]_vars

NextVault ==
    \/ \E name \in Names, pw \in Passphrases, cred \in ApiKeys : add_user(name, pw, cred)
    \/ \E name \in Names, pw \in Passphrases, cred \in ApiKeys : _interactive_user_onboarding(name, pw, cred)
    \/ \E uid \in Uids : set_active_user_by_uid(uid)
    \/ \E uid \in Uids : remove_user_entry_by_uid(uid)
    \/ \E uid \in Uids : cli_user_remove_hard(uid)
    \/ \E uid \in Uids : UserDirsLost(uid)
    \/ main_prune

SpecVault == Init /\ [][NextVault]_vars

LoginPws == {"Tr0ub4dor&3xyz", "Correct-Horse-9"}

NextVaultGet ==
    \/ \E name \in Names, pw \in LoginPws, cred \in ApiKeys : add_user(name, pw, cred)
    \/ \E uid \in Uids : set_active_user_by_uid(uid)
    \/ \E uid \in Uids : remove_user_entry_by_uid(uid)
    \/ \E uid \in Uids, pw \in LoginPws : call_get_api_key_by_uid(uid, pw)
    \/ \E pw \in LoginPws : call_get_active_api_key(pw)
    \/ \E pw \in LoginPws : call_list_users_decrypted(pw)
    \/ \E n \in Names \cup Uids, pw \in LoginPws, sel \in Selections : call__resolve_uid(n, pw, sel)
    \/ \E n \in Names, pw \in LoginPws : set_active_user_by_username(n, pw)

SpecVaultGet == Init /\ [][NextVaultGet]_vars

NextKeys ==
    \/ \E name \in Names, pw \in LoginPws, cred \in ApiKeys : add_user(name, pw, cred)
    \/ \E owner \in Uids, pw \in LoginPws, tp \in Purposes, kp \in Purposes : decrypt_under(owner, pw, tp, kp)

SpecKeys == Init /\ [][NextKeys]_vars

NextExport ==
    \/ Tick
    \/ \E t \in ExportTurns : save_turn(t[1], t[2], "pw1")
    \/ \E pw \in ExportPws, env \in EnvMasters : dump_history_encrypted(pw, env)
    \/ \E pw \in ExportPws, replace \in BOOLEAN, env \in EnvMasters : history_import(pw, replace, env)

SpecExport == Init /\ [][NextExport]_vars

(* plain JSONL dump files: lines that are records, a line that is JSON   *)
(* but no object, a line that is no JSON                                  *)
PlainLines ==
    { json_dumps_text([ts |-> 0, role |-> "user", content |-> <<"h">>]),
      json_dumps_text([ts |-> 0, role |-> "assistant", content |-> <<>>]),
      <<Ch("[", 0, ""), Ch("]", 0, "")>>,
      <<Ch("x", 0, "")>> }

PlainDocs == {<<a>> : a \in PlainLines} \cup {<<a, b>> : a \in PlainLines, b \in PlainLines}

(* a plain dump file is put where history_import will read it *)
plain_dump_written(lines) ==
    /\ Idle
    /\ dump' = Doc("plain", <<>>, JoinLF(lines), <<>>)
    /\ xlast' = XOp("plain", "", NoMaster, "ok", Len(lines), FALSE, FALSE)
    /\ UNCHANGED <<fresh, imports, clock, pvars, hvars, vvars>>

NextImport ==
    \/ \E t \in ExportTurns : save_turn(t[1], t[2], "pw1")
    \/ \E env \in EnvMasters : dump_history_encrypted("ex1", env)
    \/ \E lines \in PlainDocs : plain_dump_written(lines)
    \/ \E pw \in ExportPws, replace \in BOOLEAN, env \in EnvMasters : history_import(pw, replace, env)

SpecImport == Init /\ [][NextImport]_vars

----------------------------------------------------------------------------
(* search_history. Text is a sequence of characters; "LF" is the line      *)
(* feed, "H" the capital of "h".                                           *)

SearchTurns ==
    {<<"user", <<"h">> >>, <<"assistant", <<>> >>, <<"user", <<"H", " ", "w">> >>,
     <<"assistant", <<"w", "LF", "h">> >>}
Queries == {<<"h">>, <<"H">>, <<"h", " ", "w">>, <<" ">>, <<"x", " ", "w">>}
Modes == {"and", "or"}
Limits == 0..MaxLimit

IsWs(c) == c \in {" ", "LF"}
str_lower(t) == [i \in 1..Len(t) |-> IF t[i] = "H" THEN "h" ELSE t[i]]

RECURSIVE text_lstrip(_)
text_lstrip(t) == IF t # <<>> /\ IsWs(t[1]) THEN text_lstrip(Tail(t)) ELSE t
RECURSIVE text_rstrip(_)
text_rstrip(t) == IF t # <<>> /\ IsWs(t[Len(t)]) THEN text_rstrip(SubSeq(t, 1, Len(t) - 1)) ELSE t
text_strip(t) == text_rstrip(text_lstrip(t))

(* str.split(): the runs of characters between whitespace *)
RECURSIVE str_split(_, _)
str_split(t, cur) ==
    IF t = <<>> THEN (IF cur = <<>> THEN <<>> ELSE <<cur>>)
    ELSE IF IsWs(t[1]) THEN (IF cur = <<>> THEN <<>> ELSE <<cur>>) \o str_split(Tail(t), <<>>)
    ELSE str_split(Tail(t), Append(cur, t[1]))

_match_any(line_text, needle, mode, case_sensitive) ==
    LET t == IF case_sensitive THEN line_text ELSE str_lower(line_text)
        q == IF case_sensitive THEN needle ELSE str_lower(needle)
        terms == str_split(q, <<>>)
    IN IF terms = <<>> THEN FALSE
       ELSE \E i \in 1..Len(terms) : Contains(t, terms[i])

(* _match for the modes "and" and "or" *)
_match(line_text, needle, mode, case_sensitive) ==
    LET t == IF case_sensitive THEN line_text ELSE str_lower(line_text)
        q == IF case_sensitive THEN needle ELSE str_lower(needle)
        terms == str_split(q, <<>>)
    IN IF terms = <<>> THEN FALSE
       ELSE IF mode = "or" THEN \E i \in 1..Len(terms) : Contains(t, terms[i])
       ELSE \A i \in 1..Len(terms) : Contains(t, terms[i])

(* re.sub(r"\s+", " ", text).strip() *)
RECURSIVE Squeeze(_)
Squeeze(t) ==
    IF t = <<>> THEN <<>>
    ELSE IF IsWs(t[1]) THEN (IF Len(t) > 1 /\ IsWs(t[2]) THEN Squeeze(Tail(t)) ELSE <<" ">> \o Squeeze(Tail(t)))
    ELSE <<t[1]>> \o Squeeze(Tail(t))

(* _make_snippet with width=160 on texts shorter than 40 characters: the cut is the whole flat text *)
_make_snippet(text) == text_strip(Squeeze(text))

(* str.splitlines() of a content: no line for "", else the text up to the first line feed first *)
RECURSIVE content_splitlines(_, _)
content_splitlines(t, cur) ==
    IF t = <<>> THEN (IF cur = <<>> THEN <<>> ELSE <<cur>>)
    ELSE IF t[1] = "LF" THEN <<cur>> \o content_splitlines(Tail(t), <<>>)
    ELSE content_splitlines(Tail(t), Append(cur, t[1]))

NoContext == [role |-> "", line |-> <<>>, present |-> FALSE]

(* {"role": r.get("role"), "line": (r.get("content") or "").splitlines()[0][:160]}; *)
(* IndexError when there is no first line                                            *)
ContextOk(r) == content_splitlines(r.content, <<>>) # <<>>
Context(r) == [role |-> r.role, line |-> content_splitlines(r.content, <<>>)[1], present |-> TRUE]

(* the loop over enumerate(plain); idx counts from 1 here, the hit holds idx - 1 *)
RECURSIVE SearchLoop(_, _, _, _, _, _, _, _)
SearchLoop(plain, idx, q, mode, case_sensitive, limit, with_context, res) ==
    IF idx > Len(plain) THEN [st |-> "ok", hits |-> res]
    ELSE LET rec == plain[idx]
             text == rec.content
             go == SearchLoop(plain, idx + 1, q, mode, case_sensitive, limit, with_context, res)
             needs_prev == with_context /\ idx > 1
             needs_next == with_context /\ idx < Len(plain)
             item == [idx |-> idx - 1, ts |-> rec.ts, role |-> rec.role, snippet |-> _make_snippet(text),
                      prev |-> IF needs_prev THEN Context(plain[idx - 1]) ELSE NoContext,
                      next |-> IF needs_next THEN Context(plain[idx + 1]) ELSE NoContext]
         IN IF text = <<>> THEN go
            ELSE IF ~_match(text, q, mode, case_sensitive) THEN go
            ELSE IF (needs_prev /\ ~ContextOk(plain[idx - 1])) \/ (needs_next /\ ~ContextOk(plain[idx + 1]))
                 THEN [st |-> "IndexError", hits |-> <<>>]
            ELSE IF Len(res) + 1 >= (IF limit > 1 THEN limit ELSE 1)
                 THEN [st |-> "ok", hits |-> Append(res, item)]
            ELSE SearchLoop(plain, idx + 1, q, mode, case_sensitive, limit, with_context, Append(res, item))

search_history(exists, data, query, mode, case_sensitive, limit, master, with_context) ==
    IF ~exists \/ master = NoMaster \/ text_strip(query) = <<>> THEN [st |-> "ok", hits |-> <<>>]
    ELSE SearchLoop(load_history(exists, data, 0, master), 1, text_strip(query), mode,
                    case_sensitive, limit, with_context, <<>>)

(* a call of search_history and what comes back *)
Search(query, mode, case_sensitive, limit, master, with_context) ==
    /\ Idle
    /\ result' = search_history(histExists, hist, query, mode, case_sensitive, limit, master, with_context)
    /\ last' = [op |-> "search", master |-> master, n |-> limit, chunk |-> 0, rev |-> FALSE,
                query |-> query, mode |-> mode, cs |-> case_sensitive, ctx |-> with_context]
    /\ UNCHANGED <<hist, histExists, clock, pvars, nonce, appended, fault, inflight, vvars, xvars>>

NextSearch ==
    \/ Return
    \/ \E t \in SearchTurns : save_turn(t[1], t[2], "pw1")
    \/ \E q \in Queries, mode \in Modes, cs \in BOOLEAN, limit \in Limits, ctx \in BOOLEAN :
          Search(q, mode, cs, limit, "pw1", ctx)

SpecSearch == Init /\ [][NextSearch]_vars

----------------------------------------------------------------------------
(* add_user one write_secret_kv call at a time: the file as it stands on   *)
(* disk between the calls.                                                 *)

add_user_begin(name, master_password, api_key) ==
    /\ pending = <<>>
    /\ Cardinality(used) < MaxCreates
    /\ pending' = add_user_writes(secretsExists, secrets, _new_uid, name, master_password, api_key)
    /\ used' = used \cup {_new_uid}
    /\ created' = created \cup {Created(_new_uid, name, master_password, api_key)}
    /\ vlast' = VOp("add_user_begin", _new_uid, master_password, api_key, get_active_uid(secretsExists, secrets))
    /\ vret' = NoRet
    /\ UNCHANGED <<secrets, secretsExists, dirs, clock, pvars, hvars, xvars>>

(* the next write_secret_kv of the running add_user; _touch_user_files     *)
(* follows the write of user.active                                        *)
add_user_write ==
    /\ pending # <<>>
    /\ secrets' = write_secret_kv(secretsExists, secrets, pending[1][1], pending[1][2])
    /\ secretsExists' = TRUE
    /\ pending' = Tail(pending)
    /\ dirs' = IF pending[1][1] = ActiveKey THEN dirs \cup {vlast.uid} ELSE dirs
    /\ vlast' = VOp("set", vlast.uid, vlast.pw, vlast.cred, vlast.prevActive)
    /\ vret' = IF Tail(pending) = <<>> THEN [st |-> "ok", val |-> vlast.uid] ELSE NoRet
    /\ UNCHANGED <<used, created, clock, pvars, hvars, xvars>>

NextVaultWrites ==
    \/ \E name \in Names, pw \in Passphrases, cred \in ApiKeys : add_user_begin(name, pw, cred)
    \/ add_user_write
    \/ \E uid \in Uids : pending = <<>> /\ set_active_user_by_uid(uid)
    \/ \E uid \in Uids : pending = <<>> /\ remove_user_entry_by_uid(uid)

SpecVaultWrites == Init /\ [][NextVaultWrites]_vars

----------------------------------------------------------------------------
(* The key/value layer by itself: write_secret_kv and read_secrets over   *)
(* small secrets files.                                                    *)

KeysKV == {<<"a">>, <<"b">>}
ValuesKV == {<<"x">>, <<"y">>}
LinePool == {KV(<<"a">>, <<>>), KV(<<"a">>, <<"x">>), KV(<<"b">>, <<"y">>), CommentLine("c"), BlankLine}
SmallFiles == UNION {[1..n -> LinePool] : n \in 0..MaxFileLines}

KOp(op, key, value, afterSet) == [op |-> op, key |-> key, value |-> value, afterSet |-> afterSet]

KVInit ==
    /\ secretsExists \in BOOLEAN
    /\ secrets \in (IF secretsExists THEN SmallFiles ELSE {<<>>})
    /\ dirs = {}
    /\ used = {}
    /\ created = {}
    /\ vlast = KOp("none", <<>>, <<>>, FALSE)
    /\ vret = [st |-> "none", val |-> <<>>]
    /\ pending = <<>>

(* set(key, value): write_secret_kv *)
Set(key, value) ==
    /\ secrets' = write_secret_kv(secretsExists, secrets, key, value)
    /\ secretsExists' = TRUE
    /\ vlast' = KOp("set", key, value, FALSE)
    /\ vret' = [st |-> "none", val |-> <<>>]
    /\ UNCHANGED <<dirs, used, created, clock, pvars, pending, hvars, xvars>>

(* get(key): read_secrets().get(key) *)
Get(key) ==
    /\ vret' = [st |-> "ok", val |-> SecGet(read_secrets(secretsExists, secrets), key)]
    /\ vlast' = KOp("get", key, IF vlast.op = "set" /\ vlast.key = key THEN vlast.value ELSE <<>>,
                    vlast.op = "set" /\ vlast.key = key)
    /\ UNCHANGED <<secrets, secretsExists, dirs, used, created, clock, pvars, pending, hvars, xvars>>

NextKV ==
    \/ \E key \in KeysKV, value \in ValuesKV : Set(key, value)
    \/ \E key \in KeysKV : Get(key)

InitKV == HistInit /\ KVInit /\ ExportInit /\ PinInit

SpecKV == InitKV /\ [][NextKV]_vars

(* _write_text opens the file for writing, which empties it, and writes the *)
(* whole new text: a crash during the write leaves a prefix of the new     *)
(* text, j whole lines and possibly the torn beginning of the next one.    *)
TornLine == [t |-> "raw", k |-> <<>>, v |-> <<"torn">>]

CrashInWriteText(key, value, j, torn) ==
    LET new == write_secret_kv(secretsExists, secrets, key, value)
    IN /\ fault = "none"
       /\ j < Len(new)
       /\ fault' = "crashed"
       /\ secrets' = SubSeq(new, 1, j) \o (IF torn THEN <<TornLine>> ELSE <<>>)
       /\ secretsExists' = TRUE
       /\ vlast' = KOp("crash_set", key, value, FALSE)
       /\ vret' = [st |-> "crash", val |-> <<>>]
       /\ UNCHANGED <<dirs, used, created, clock, pvars, pending, hist, histExists, nonce, appended, inflight, result, last, xvars>>

NextKVCrash ==
    \/ \E key \in KeysKV, value \in ValuesKV : Set(key, value)
    \/ \E key \in KeysKV : Get(key)
    \/ \E key \in KeysKV, value \in ValuesKV, j \in 0..(MaxFileLines + 2), torn \in BOOLEAN :
          CrashInWriteText(key, value, j, torn)

SpecKVCrash == InitKV /\ [][NextKVCrash]_vars

----------------------------------------------------------------------------
(* Records the log is expected to hold for a reader using `master` *)

RecsOf(entries) == [i \in 1..Len(entries) |-> entries[i].rec]
Expected(master) == RecsOf(SelectSeq(appended, LAMBDA e : e.master = master))

(* C1: load_all returns exactly the records appended under the reader's   *)
(* passphrase, in append order, each with the role, content and timestamp *)
(* that was written.                                                       *)
C1_RoundTrip ==
    last.op = "load_all" => result = Expected(last.master)

C1_Witness ==
    /\ last.op = "load_all"
    /\ last.master \in Masters
    /\ Len(result) >= 2
    /\ result[1] # result[2]
    /\ result = Expected(last.master)

ReadAll(master) == load_history(histExists, hist, 0, master)

(* every line of the file other than the header decrypts under `master` *)
LinesDecrypt(master) ==
    \A i \in 1..Len(splitlines(hist)) :
        \/ splitlines(hist)[i] = <<HB>>
        \/ FernetOk(_history_key_for_uid(master), splitlines(hist)[i])

TailIsSuffix ==
    LET all == ReadAll(last.master)
        k == Min(last.n, Len(all))
    IN /\ Len(result) = k
       /\ result = LastN(all, k)

(* C2 as stated: for every log and every n >= 0, load_tail(n) in          *)
(* chronological order returns exactly min(n, M) records, the last        *)
(* min(n, M) records of load_all(), M being the length of load_all().     *)
C2_TailEveryLog ==
    (last.op = "load_tail" /\ ~last.rev) => TailIsSuffix

(* C2 as amended: the same, for every log all of whose lines other than   *)
(* the header decrypt under the reader's passphrase.                      *)
C2_TailCorrect ==
    (last.op = "load_tail" /\ ~last.rev /\ LinesDecrypt(last.master)) => TailIsSuffix

C2_Witness ==
    /\ last.op = "load_tail"
    /\ ~last.rev
    /\ LinesDecrypt(last.master)
    /\ last.n = 1
    /\ last.chunk = 1
    /\ Len(ReadAll(last.master)) = 2
    /\ result = <<ReadAll(last.master)[2]>>

(* C3: when one line of the log has been altered so that it no longer     *)
(* decrypts, load_all returns the records of all other lines, in order,   *)
(* and omits only the record of the altered line.                         *)
C3_TamperTolerance ==
    (last.op = "load_all" /\ fault = "tampered") => result = Expected(last.master)

C3_Witness ==
    /\ last.op = "load_all"
    /\ fault = "tampered"
    /\ nonce = 2
    /\ Len(result) = 1
    /\ result = Expected(last.master)

RECURSIVE IsSubseq(_, _)
IsSubseq(a, b) ==
    IF a = <<>> THEN TRUE
    ELSE IF b = <<>> THEN FALSE
    ELSE IF Head(a) = Head(b) THEN IsSubseq(Tail(a), Tail(b))
    ELSE IsSubseq(a, Tail(b))

(* C10: after a crash inside an append, load_all still returns every      *)
(* record whose append completed, before the crash or after the restart.  *)
C10_CrashConfined ==
    (last.op = "load_all" /\ fault = "crashed") => IsSubseq(Expected(last.master), result)

----------------------------------------------------------------------------
(* Vault claims *)

ActiveNow == get_active_uid(secretsExists, secrets)
UsersNow == _users_in_file(read_secrets(secretsExists, secrets))

(* C4: user.active is empty or the id of an identity that still has records. *)
C4_ActiveNeverDangling == ActiveNow = <<>> \/ ActiveNow[1] \in UsersNow

FieldNow(uid, field) == SecGet(read_secrets(secretsExists, secrets), UserKey(uid, field))

(* C5: after create returns id, user.active is id, the identity's kdf_salt, *)
(* username_enc, api_key_enc and updated_at are stored, and get_credential  *)
(* with the same passphrase returns the credential.                         *)
C5_CreatePostcondition ==
    vlast.op = "add_user" =>
        /\ ActiveNow = <<vlast.uid>>
        /\ \A f \in {"kdf_salt", "username_enc", "api_key_enc", "updated_at"} : FieldNow(vlast.uid, f) # <<>>
        /\ get_api_key_by_uid(secretsExists, secrets, vlast.uid, vlast.pw) = [st |-> "ok", val |-> vlast.cred]

FieldsOf(lines, uid) == SelectSeq(lines, LAMBDA l : ~NotOf(uid, l))

RemovePost(old, new, uid, wasActive) ==
    LET remaining == _users_in_file(SelectSeq(new, IsKV))
        now == SecGet(SelectSeq(new, IsKV), ActiveKey)
    IN /\ FieldsOf(new, uid) = <<>>
       /\ \A w \in Uids \ {uid} : FieldsOf(new, w) = FieldsOf(old, w)
       /\ IF wasActive = <<uid>>
          THEN IF remaining = {} THEN now = <<>> ELSE now # <<>> /\ now[1] \in remaining
          ELSE now = wasActive

(* C8: remove(id) deletes every user.<id>.* field and no field of another  *)
(* identity; an active id is repointed to a remaining identity or cleared, *)
(* and a pointer to another identity is left alone.                        *)
C8_RemoveFrame ==
    [][vlast'.op = "remove" =>
          RemovePost(secrets, secrets', vlast'.uid, get_active_uid(secretsExists, secrets))]_vars

C8_Witness ==
    /\ vlast.op = "remove"
    /\ vlast.prevActive = <<vlast.uid>>
    /\ ActiveNow # <<>>
    /\ ActiveNow[1] \in UsersNow
    /\ ActiveNow[1] # vlast.uid

(* C9: create with a passphrase the policy rejects fails with WeakPassphrase *)
(* and leaves the vault file as it was.                                      *)
C9_WeakPassphraseRejected ==
    [][(vlast'.op = "add_user" /\ ~validate_master_password(PwText(vlast'.pw), FALSE, 0)) =>
          (vret'.st = "WeakPassphrase" /\ secrets' = secrets /\ secretsExists' = secretsExists)]_vars

HoldersOf(lines, key) == {i \in 1..Len(lines) : IsKV(lines[i]) /\ lines[i].k = key}

SetFrame(old, new, key, value) ==
    IF HoldersOf(old, key) = {} THEN new = Append(old, KV(key, value))
    ELSE \E i \in HoldersOf(old, key) : new = [old EXCEPT ![i] = KV(key, value)]

(* C6: set(key, value) rewrites the one line that holds key, or appends one *)
(* line when none does, and leaves every other line of the file unchanged,  *)
(* whatever the key's current value is.                                     *)
C6_SetFrame ==
    [][(vlast'.op = "set" /\ secretsExists /\ secrets # <<>>) =>
          SetFrame(secrets, secrets', vlast'.key, vlast'.value)]_vars

(* C7: get(key) immediately after set(key, v) returns v, for every file.    *)
C7_GetAfterSet == (vlast.op = "get" /\ vlast.afterSet) => vret.val = vlast.value

(* C11: a crash in the middle of a vault set() damages at most the line    *)
(* being written: every other key's line is still in the file afterwards.  *)
C11_CrashInSetConfined ==
    [][vlast'.op = "crash_set" =>
          \A i \in 1..Len(secrets) :
              (IsKV(secrets[i]) /\ secrets[i].k # vlast'.key) =>
                  \E m \in 1..Len(secrets') : secrets'[m] = secrets[i]]_vars

RoleContent(recs) == [i \in 1..Len(recs) |-> <<recs[i].role, recs[i].content>>]

(* C12: after an encrypted dump is imported with the export passphrase     *)
(* into a fresh identity, load_all of that identity has the exported       *)
(* records' roles and contents, as many and in the same order.             *)
C12_ExportImportRoundTrip ==
    (xlast.op = "import" /\ xlast.st = "ok" /\ xlast.intoFresh) =>
        RoleContent(load_history_fresh(fresh, xlast.env)) = RoleContent(dump.exported)

StartsWithHeader(data) == Len(data) >= Len(HeaderText) /\ SubSeq(data, 1, Len(HeaderText)) = HeaderText

(* C14: whenever the log file exists its first line is the header; an      *)
(* append adds exactly one line after the unchanged previous content; only *)
(* reset removes lines.                                                    *)
C14_Lifecycle ==
    [][/\ histExists' => StartsWithHeader(hist')
       /\ nonce' = nonce + 1 =>
             /\ Len(splitlines(hist')) = Len(splitlines(hist)) + 1
             /\ SubSeq(hist', 1, Len(hist)) = hist
       /\ Len(splitlines(hist')) < Len(splitlines(hist)) => reset_user_history]_vars

(* C15: create makes the new identity an admin exactly when the store held *)
(* no identity just before the call, and leaves the is_admin flag of every *)
(* other identity as it was.                                               *)
C15_FirstIsAdmin ==
    [][vlast'.op \in {"add_user", "onboarding"} =>
          /\ is_admin(secretsExists', secrets', vlast'.uid)
                <=> (_users_in_file(read_secrets(secretsExists, secrets)) = {})
          /\ \A w \in Uids \ {vlast'.uid} :
                SecGet(read_secrets(secretsExists', secrets'), UserKey(w, "is_admin"))
                   = SecGet(read_secrets(secretsExists, secrets), UserKey(w, "is_admin"))]_vars

C15_Witness ==
    /\ vlast.op = "add_user"
    /\ ~is_admin(secretsExists, secrets, vlast.uid)
    /\ \E w \in Uids \ {vlast.uid} : is_admin(secretsExists, secrets, w)

SaltOf(exists, lines, uid) == SecGet(read_secrets(exists, lines), UserKey(uid, "kdf_salt"))

(* C16: the stored kdf_salt of an identity is left as it is by every       *)
(* operation except the removal of that identity.                          *)
C16_SaltImmutable ==
    [][\A uid \in Uids :
          (SaltOf(secretsExists, secrets, uid) # <<>> /\ ~(vlast'.op = "remove" /\ vlast'.uid = uid)) =>
              SaltOf(secretsExists', secrets', uid) = SaltOf(secretsExists, secrets, uid)]_vars

CreatedOf(uid) == CHOOSE c \in created : c.uid = uid

HasCredential(uid) ==
    /\ SaltOf(secretsExists, secrets, uid) # <<>>
    /\ SecGet(read_secrets(secretsExists, secrets), UserKey(uid, "api_key_enc")) # <<>>

(* the not-found outcomes: KeyError of get_api_key_by_uid, None of get_active_api_key *)
NotFound == {"KeyError", "None"}

GetContract(uid, pw, ret) ==
    IF uid \in Uids /\ HasCredential(uid)
    THEN IF pw = CreatedOf(uid).pw THEN ret = [st |-> "ok", val |-> CreatedOf(uid).cred]
         ELSE ret.st = "InvalidToken"
    ELSE ret.st \in NotFound

(* C17 for get_api_key_by_uid alone: the credential given to add_user comes *)
(* back under the passphrase given to add_user, InvalidToken under another, *)
(* KeyError when the uid or one of its fields is not stored.                *)
C17_GetByUid == vlast.op = "get" => GetContract(vlast.uid, vlast.pw, vret)

(* C17: getting a credential returns the stored credential exactly under    *)
(* the passphrase of its creation, fails with an authentication failure     *)
(* under another passphrase and with a distinct not-found error for an      *)
(* unknown id or a missing field; this for get_api_key_by_uid and for       *)
(* get_active_api_key, which gets the credential of the active id.          *)
C17_GetCredential ==
    /\ vlast.op = "get" => GetContract(vlast.uid, vlast.pw, vret)
    /\ vlast.op = "get_active" =>
           GetContract(IF Len(vlast.prevActive) = 1 THEN vlast.prevActive[1] ELSE "", vlast.pw, vret)

(* the identities whose stored name decrypts under pw *)
Decryptable(pw) ==
    {uid \in _users_in_file(read_secrets(secretsExists, secrets)) :
        /\ SaltOf(secretsExists, secrets, uid) # <<>>
        /\ SecGet(read_secrets(secretsExists, secrets), UserKey(uid, "username_enc")) # <<>>
        /\ CreatedOf(uid).pw = pw}

(* C18: list returns exactly the identities whose name decrypts under the  *)
(* passphrase, each once and with the name given at create, in the order   *)
(* of their names; the others are skipped and the call does not fail.      *)
C18_ListSkips ==
    vlast.op = "list" =>
        /\ vret.st = "ok"
        /\ {vret.val[i] : i \in 1..Len(vret.val)} = {<<uid, CreatedOf(uid).name>> : uid \in Decryptable(vlast.pw)}
        /\ Len(vret.val) = Cardinality(Decryptable(vlast.pw))
        /\ \A i, j \in 1..Len(vret.val) : i < j => ~StrLess(SortKey(vret.val[j]), SortKey(vret.val[i]))

(* a list that returned one identity and skipped another that has a stored name *)
C18_Witness ==
    /\ vlast.op = "list"
    /\ Len(vret.val) = 1
    /\ \E uid \in _users_in_file(read_secrets(secretsExists, secrets)) \ Decryptable(vlast.pw) :
           SecGet(read_secrets(secretsExists, secrets), UserKey(uid, "username_enc")) # <<>>

(* the identities stored under the display name `name`, readable under pw *)
Named(name, pw) == {uid \in Decryptable(pw) : CreatedOf(uid).name = name}

(* C19: when two stored identities have the same display name, resolving   *)
(* that name returns no id but signals AmbiguousName with the ids of both. *)
C19_AmbiguousName ==
    (vlast.op \in {"resolve", "use_by_name"} /\ vlast.uid \in Names /\ Cardinality(Named(vlast.uid, vlast.pw)) >= 2) =>
        /\ vret.st = "AmbiguousName"
        /\ vret.val = Named(vlast.uid, vlast.pw)

(* the part of C19 that does not depend on how the error is named: no id is returned *)
C19_NoIdReturned ==
    (vlast.op \in {"resolve", "use_by_name"} /\ vlast.uid \in Names /\ Cardinality(Named(vlast.uid, vlast.pw)) >= 2) =>
        vret.st # "ok"

(* C20: from one passphrase and one salt, the keys of different purposes   *)
(* (each field of each uid, and the history) are pairwise distinct, and a  *)
(* token encrypted for one purpose is rejected under the key of another.   *)
C20_DomainSeparation ==
    vlast.op = "decrypt" =>
        LET tp == vret.val[1]
            kp == vret.val[2]
            salt == _b64d_u_padded(SaltOf(secretsExists, secrets, vlast.uid))
            master == vlast.pw
        IN /\ tp # kp => PurposeKey(tp, master, salt) # PurposeKey(kp, master, salt)
           /\ tp # kp => vret.st = "InvalidToken"
           /\ tp = kp => vret.st = "ok"

(* a token of one field of an identity was tried under the key of its other field *)
C20_Witness ==
    /\ vlast.op = "decrypt"
    /\ vret.st = "InvalidToken"
    /\ vret.val[1] = Purpose("field", vlast.uid, "username")
    /\ vret.val[2] = Purpose("field", vlast.uid, "api_key")

IsPrefix(a, b) == Len(a) <= Len(b) /\ a = SubSeq(b, 1, Len(a))

IsSegment(a, b) == \E i \in 0..Len(b) : i + Len(a) <= Len(b) /\ a = SubSeq(b, i + 1, i + Len(a))

(* the records of `master` whose token is on disk in full *)
Written(master) ==
    RecsOf(SelectSeq(IF Len(inflight) > 1 THEN SubSeq(appended, 1, Len(appended) - 1) ELSE appended,
                     LAMBDA e : e.master = master))

(* C21: a read that runs while one save_turn is writing returns only       *)
(* records that were appended, in append order and each once: load_all a   *)
(* prefix of them, load_tail a run of consecutive ones; the part of a line *)
(* that is on disk so far does not make the read fail or add a record.     *)
C21_ConcurrentRead ==
    /\ last.op = "load_all" => IsPrefix(result, Written(last.master))
    /\ last.op = "load_tail" =>
           IsSegment(IF last.rev THEN Reverse(result) ELSE result, Written(last.master))

(* a read returned the first record while part of the token of the second *)
(* was on disk                                                            *)
C21_Witness ==
    /\ last.op = "load_all"
    /\ Len(inflight) \in 2..TokLen
    /\ Len(appended) = 2
    /\ \A i \in 1..2 : appended[i].master = last.master
    /\ Len(result) = 1

C26_EmptyNeverStored ==
    [][\A role \in {"user", "assistant", "tool"}, m \in Masters :
          save_turn(role, "", m) => (hist' = hist /\ histExists' = histExists)]_vars

(* C28: an import that fails leaves the target log exactly as it was, in   *)
(* replace mode too.                                                       *)
C28_FailedImportKeepsLog ==
    [][(xlast'.op = "import" /\ imports' = imports + 1 /\ xlast'.st # "ok") => fresh' = fresh]_vars

(* the whitespace-separated terms of a query: its longest runs without whitespace *)
Terms(q) ==
    {SubSeq(q, i, j) : i \in 1..Len(q), j \in 1..Len(q)} \cap
    {SubSeq(q, ij[1], ij[2]) : ij \in {x \in (1..Len(q)) \X (1..Len(q)) :
        /\ x[1] <= x[2]
        /\ \A k \in x[1]..x[2] : ~IsWs(q[k])
        /\ (x[1] = 1 \/ IsWs(q[x[1] - 1]))
        /\ (x[2] = Len(q) \/ IsWs(q[x[2] + 1]))}}

(* the positions, counted from 1, of the records of `all` that the query selects *)
Selected(all, q, mode, cs) ==
    LET fold(x) == IF cs THEN x ELSE str_lower(x)
    IN {i \in 1..Len(all) :
          IF mode = "and" THEN \A t \in Terms(fold(q)) : Contains(fold(all[i].content), t)
          ELSE \E t \in Terms(fold(q)) : Contains(fold(all[i].content), t)}

(* the hits are the first records selected, in log order, each with the position of its record *)
FirstSelected(hits, all, sel) ==
    \A k \in 1..Len(hits) :
        /\ hits[k].idx + 1 \in sel
        /\ Cardinality({i \in sel : i < hits[k].idx + 1}) = k - 1
        /\ hits[k].role = all[hits[k].idx + 1].role
        /\ hits[k].ts = all[hits[k].idx + 1].ts

C24_LimitRespected ==
    (last.op = "search" /\ result.st = "ok") =>
        LET all == load_history(histExists, hist, 0, last.master)
            sel == IF Terms(last.query) = {} THEN {} ELSE Selected(all, last.query, last.mode, last.cs)
        IN /\ Len(result.hits) <= last.n
           /\ FirstSelected(result.hits, all, sel)

(* C25: with with_context, a search completes without error on every log  *)
(* load_all can read, and a hit at idx has a preview of the record before  *)
(* it iff idx > 0 and of the record after it iff idx + 1 is less than the  *)
(* number of records, also when that record's content is empty.            *)
C25_ContextComplete ==
    (last.op = "search" /\ last.ctx) =>
        /\ result.st = "ok"
        /\ \A k \in 1..Len(result.hits) :
              /\ result.hits[k].prev.present <=> result.hits[k].idx > 0
              /\ result.hits[k].next.present <=>
                     result.hits[k].idx + 1 < Len(load_history(histExists, hist, 0, last.master))

(* C29: for any log content and any n, what load_tail(n) returns does not  *)
(* depend on chunk_size: its candidate lines are the last n non-blank      *)
(* lines of the whole file split at newlines, so no fragment cut at a      *)
(* chunk boundary is decrypted.                                            *)
C29_ChunkIndependent ==
    (last.op = "load_tail" /\ last.n >= 1) =>
        /\ \A cs \in ChunkSizes :
              load_history_tail(histExists, hist, last.n, last.master, last.rev, cs) = result
        /\ tail_lines(hist, last.n, last.chunk) = LastN(NonBlank(split(hist)), last.n)

(* C27: every record load_all or load_tail returns has role user or        *)
(* assistant: any other stored role comes back as assistant.               *)
C27_RolesNormalized ==
    last.op \in {"load_all", "load_tail"} =>
        \A i \in 1..Len(result) : result[i].role \in {"user", "assistant"}

(* C30: during change_admin_pin_interactive with an admin PIN in place,    *)
(* the stored PIN is replaced only if the current PIN entered verifies; a  *)
(* wrong current PIN uses up one attempt and the user is asked again while *)
(* attempts are left; and False is returned only on cancel or after        *)
(* max_tries failed attempts.                                              *)
C30_PinChange ==
    /\ [][(has_admin_pin(adminPin) /\ adminPin' # adminPin) =>
              verify_admin_pin(adminPin, pin.current)]_vars
    /\ [][(pin'.wrong = pin.wrong + 1 /\ pin.tries < pin.max) =>
              (pin'.step = "current" /\ pin'.tries = pin.tries + 1)]_vars
    /\ [](pin.ret = "False" => (pin.cancelled \/ pin.tries = pin.max))

====
